---- MODULE Spec2Model ----
(***************************************************************************)
(* A model of the CivicRAG backend (src/app.py): the in-memory scheme      *)
(* catalog SCHEMES, the rule-based matcher strict_retrieve behind          *)
(* POST /retrieve, and the POST /synthesize handler with its Gemini client *)
(* call_gemini and the local deterministic text.                           *)
(*                                                                         *)
(* Conventions.                                                            *)
(*  - An Optional value is a set: {} is None, {v} is the value v.          *)
(*  - Text that the code inspects character by character (occupation,      *)
(*    gender, language) is a sequence of one-character strings; text that  *)
(*    the code only compares for equality or copies (ids, states, names)   *)
(*    is an atomic string.                                                 *)
(*  - A match score is kept in hundredths: 0.95 is 95.                     *)
(*  - An income is a whole number of rupees.                               *)
(***************************************************************************)
EXTENDS Integers, Sequences, FiniteSets, TLC

VARIABLES
    SCHEMES,         \* the module-level catalog list (app.py:74)
    GEMINI_API_KEY,  \* the module-level credential read at import (app.py:25)
    nCalls,          \* number of requests handled so far
    endpoint,        \* the endpoint of the last handled request
    request,         \* the body of the last handled request
    gemini,          \* how the remote endpoints answer during the last request
    response,        \* the answer to the last handled request
    log,             \* the functions and HTTP posts run by the last request
    firstCall        \* Optional: profile and result of the first /retrieve

vars == <<SCHEMES, GEMINI_API_KEY, nCalls, endpoint, request, gemini,
          response, log, firstCall>>

-----------------------------------------------------------------------------
(* Bounds of the model.                                                    *)

MaxCalls == 2

-----------------------------------------------------------------------------
(* Optional values and Python string operations.                           *)

None == {}
Some(v) == {v}
IsNone(o) == o = {}
TheValue(o) == CHOOSE v \in o : TRUE

\* str.lower() on one character (ASCII letters; other characters are kept).
LowerChar(c) ==
    CASE c = "A" -> "a" [] c = "B" -> "b" [] c = "C" -> "c" [] c = "D" -> "d"
      [] c = "E" -> "e" [] c = "F" -> "f" [] c = "G" -> "g" [] c = "H" -> "h"
      [] c = "I" -> "i" [] c = "J" -> "j" [] c = "K" -> "k" [] c = "L" -> "l"
      [] c = "M" -> "m" [] c = "N" -> "n" [] c = "O" -> "o" [] c = "P" -> "p"
      [] c = "Q" -> "q" [] c = "R" -> "r" [] c = "S" -> "s" [] c = "T" -> "t"
      [] c = "U" -> "u" [] c = "V" -> "v" [] c = "W" -> "w" [] c = "X" -> "x"
      [] c = "Y" -> "y" [] c = "Z" -> "z" [] OTHER -> c

\* str.lower()
Lower(s) == [i \in 1..Len(s) |-> LowerChar(s[i])]

\* sub in s
Contains(s, sub) ==
    \E i \in 0..(Len(s) - Len(sub)) : SubSeq(s, i + 1, i + Len(sub)) = sub

\* s.startswith(prefix)
StartsWith(s, prefix) ==
    /\ Len(s) >= Len(prefix)
    /\ SubSeq(s, 1, Len(prefix)) = prefix

\* bool(s) of an Optional[str]: None and "" are false.
Truthy(o) == /\ ~IsNone(o)
             /\ TheValue(o) /= <<>>

-----------------------------------------------------------------------------
(* The catalog.  Each record keeps the keys the matcher and the synthesis  *)
(* read; the other text keys of a record are carried along unchanged.      *)

Scheme(id, name, state) == [id |-> id, name |-> name, state |-> state]

Catalog ==
    << Scheme("pm-kisan", "PM Kisan Samman Nidhi", "Central"),
       Scheme("ayushman-bharat", "Ayushman Bharat (PM-JAY)", "Central"),
       Scheme("pm-svanidhi", "PM SVANidhi", "Central"),
       Scheme("sukanya-samriddhi", "Sukanya Samriddhi Yojana", "Central"),
       Scheme("atal-pension", "Atal Pension Yojana", "Central"),
       Scheme("ladli-behna", "Mukhyamantri Ladli Behna Yojana (MP)",
              "Madhya Pradesh"),
       Scheme("rythu-bandhu", "Rythu Bandhu (Telangana)", "Telangana"),
       Scheme("kanyashree", "Kanyashree Prakalpa (West Bengal)",
              "West Bengal"),
       Scheme("delhi-electricity", "Delhi Free Electricity Scheme",
              "Delhi") >>

-----------------------------------------------------------------------------
(* Profiles (ProfileIn).  The sample values sit on both sides of every     *)
(* threshold and letter-case test of the matcher.                          *)

farmer == <<"f", "a", "r", "m", "e", "r">>
vendor == <<"v", "e", "n", "d", "o", "r">>
street == <<"s", "t", "r", "e", "e", "t">>
student == <<"s", "t", "u", "d", "e", "n", "t">>

AgeSamples == {10, 11, 12, 13, 17, 18, 21, 40, 41, 60, 61}
IncomeSamples == {249999, 250000, 499999, 500000}
GenderSamples ==
    { <<>>, <<"F">>, <<"f", "e", "m", "a", "l", "e">>, <<"m", "a", "l", "e">> }
StateSamples ==
    {"Madhya Pradesh", "Telangana", "West Bengal", "Delhi", "telangana"}
OccupationSamples ==
    { farmer, <<"D", "a", "i", "r", "y", " ", "F", "A", "R", "M", "E", "R">>,
      student, <<"S", "t", "u", "d", "e", "n", "t">>, vendor, street }

Optional(S) == {None} \cup {Some(v) : v \in S}

Profiles ==
    [ name : {None}, age : Optional(AgeSamples),
      gender : Optional(GenderSamples), state : Optional(StateSamples),
      income : Optional(IncomeSamples),
      occupation : Optional(OccupationSamples), text : {None} ]

\* Profiles sent after the first request, besides a repeat of the first one.
FollowUpProfiles ==
    { [ name |-> None, age |-> Some(18), gender |-> Some(<<"F">>),
        state |-> Some("West Bengal"), income |-> None,
        occupation |-> Some(student), text |-> None ],
      [ name |-> None, age |-> None, gender |-> None,
        state |-> Some("Delhi"), income |-> Some(249999),
        occupation |-> Some(farmer), text |-> None ] }

-----------------------------------------------------------------------------
(* strict_retrieve                                                         *)

ScoreGate == 50
ScoreKisan == 90
ScoreSvanidhi == 90
ScoreAyushman == 80
ScoreAtal == 85
ScoreSukanya == 95
ScoreLadli == 95
ScoreRythu == 95
ScoreKanyashree == 95
ScoreDelhi == 90

\* age = int(profile.age) if profile.age is not None else None
NormAge(profile) == profile.age

\* income = float(profile.income) if profile.income is not None else None
NormIncome(profile) == profile.income

\* occupation = profile.occupation.lower() if profile.occupation else ""
NormOccupation(profile) ==
    IF Truthy(profile.occupation) THEN Lower(TheValue(profile.occupation))
    ELSE <<>>

\* profile.gender and profile.gender.lower().startswith("f")
IsFemale(profile) ==
    /\ Truthy(profile.gender)
    /\ StartsWith(Lower(TheValue(profile.gender)), <<"f">>)

\* age is not None and lo <= age <= hi
AgeBetween(age, lo, hi) == \E a \in age : lo <= a /\ a <= hi

\* A variant of StateFilterSkips that lets a profile without a state through.
StateFilterSkipsIfGiven(scheme, profile) ==
    /\ scheme.state /= "Central"
    /\ ~IsNone(profile.state)
    /\ scheme.state /= TheValue(profile.state)

\* A variant of StateFilterSkips that tests `profile.state is None` before it
\* looks at the scheme's state.
StateFilterSkipsWithoutState(scheme, profile) ==
    \/ IsNone(profile.state)
    \/ /\ scheme.state /= "Central"
       /\ scheme.state /= TheValue(profile.state)

\* The state filter: TRUE when the loop body runs `continue`.
StateFilterSkips(scheme, profile) ==
    /\ scheme.state /= "Central"
    /\ \/ IsNone(profile.state)
       \/ scheme.state /= TheValue(profile.state)

\* The score after the state filter, for a scheme that is not skipped.
StateFilterScore(scheme) == IF scheme.state /= "Central" THEN ScoreGate ELSE 0

\* A variant of FarmerRule that tests the occupation as typed.
FarmerRuleCaseSensitive(profile) ==
    /\ Truthy(profile.occupation)
    /\ Contains(TheValue(profile.occupation), farmer)

\* "farmer" in occupation                       (pm-kisan, rythu-bandhu)
FarmerRule(profile) == Contains(NormOccupation(profile), farmer)

\* "vendor" in occupation or "street" in occupation           (pm-svanidhi)
VendorRule(profile) ==
    \/ Contains(NormOccupation(profile), vendor)
    \/ Contains(NormOccupation(profile), street)

\* income is not None and income < 500000                 (ayushman-bharat)
AyushmanRule(profile) == \E inc \in NormIncome(profile) : inc < 500000

\* A variant of AtalRule with the upper end left out.
AtalRuleExclusive(profile) == \E a \in NormAge(profile) : 18 <= a /\ a < 40

\* age is not None and 18 <= age <= 40                       (atal-pension)
AtalRule(profile) == AgeBetween(NormAge(profile), 18, 40)

\* A variant of SukanyaRule for ages strictly below ten.
SukanyaRuleBelowTen(profile) ==
    /\ IsFemale(profile)
    /\ \E a \in NormAge(profile) : a < 10

\* female and (age is not None and age <= 10)           (sukanya-samriddhi)
SukanyaRule(profile) ==
    /\ IsFemale(profile)
    /\ \E a \in NormAge(profile) : a <= 10

\* female and 21 <= age <= 60 and income < 250000             (ladli-behna)
LadliRule(profile) ==
    /\ IsFemale(profile)
    /\ AgeBetween(NormAge(profile), 21, 60)
    /\ \E inc \in NormIncome(profile) : inc < 250000

\* A variant of KanyashreeRule that compares the occupation as typed.
KanyashreeRuleExactCase(profile) ==
    /\ IsFemale(profile)
    /\ Truthy(profile.occupation)
    /\ TheValue(profile.occupation) = student
    /\ AgeBetween(NormAge(profile), 13, 18)

\* female and profile.occupation.lower() == "student" and 13 <= age <= 18
KanyashreeRule(profile) ==
    /\ IsFemale(profile)
    /\ Truthy(profile.occupation)
    /\ Lower(TheValue(profile.occupation)) = student
    /\ AgeBetween(NormAge(profile), 13, 18)

\* The chain of `if sid == ...` blocks: from the pair (score, is_eligible)
\* left by the state filter to the pair tested on line 369.
ApplyRules(scheme, profile, score0) ==
    LET sid == scheme.id
        Hit(score) == [score |-> score, is_eligible |-> TRUE]
        Miss(st) == [st EXCEPT !.is_eligible = FALSE]
        st0 == [score |-> score0, is_eligible |-> FALSE]
        st1 == IF sid = "pm-kisan" /\ FarmerRule(profile)
               THEN Hit(ScoreKisan) ELSE st0
        st2 == IF sid = "pm-svanidhi" /\ VendorRule(profile)
               THEN Hit(ScoreSvanidhi) ELSE st1
        st3 == IF sid = "ayushman-bharat" /\ AyushmanRule(profile)
               THEN Hit(ScoreAyushman) ELSE st2
        st4 == IF sid = "atal-pension" /\ AtalRule(profile)
               THEN Hit(ScoreAtal) ELSE st3
        st5 == IF sid = "sukanya-samriddhi" /\ SukanyaRule(profile)
               THEN Hit(ScoreSukanya) ELSE st4
        st6 == IF sid = "ladli-behna"
               THEN IF LadliRule(profile) THEN Hit(ScoreLadli) ELSE Miss(st5)
               ELSE st5
        st7 == IF sid = "rythu-bandhu"
               THEN IF FarmerRule(profile) THEN Hit(ScoreRythu) ELSE Miss(st6)
               ELSE st6
        st8 == IF sid = "kanyashree"
               THEN IF KanyashreeRule(profile) THEN Hit(ScoreKanyashree)
                    ELSE Miss(st7)
               ELSE st7
        st9 == IF sid = "delhi-electricity" /\ scheme.state = "Delhi"
               THEN Hit(ScoreDelhi) ELSE st8
    IN  st9

\* dict with the key matchScore set
WithScore(scheme, score) ==
    [k \in DOMAIN scheme \cup {"matchScore"} |->
        IF k = "matchScore" THEN score ELSE scheme[k]]

\* A variant of AppendEntry without the copy: the score is written into the
\* catalog record itself.
AppendEntryAliased(st, i, score) ==
    [ schemes |-> [st.schemes EXCEPT ![i] = WithScore(@, score)],
      results |-> Append(st.results, WithScore(st.schemes[i], score)) ]

\* entry = scheme.copy(); entry["matchScore"] = score; results.append(entry)
\* The copy is a new dict, so the catalog record keeps its keys.
AppendEntry(st, i, score) ==
    [ schemes |-> st.schemes,
      results |-> Append(st.results, WithScore(st.schemes[i], score)) ]

\* One iteration of `for scheme in SCHEMES` on the i-th record.
LoopBody(st, i, profile) ==
    LET scheme == st.schemes[i]
    IN  IF StateFilterSkips(scheme, profile) THEN st
        ELSE LET r == ApplyRules(scheme, profile, StateFilterScore(scheme))
             IN  IF r.is_eligible /\ r.score > 0
                 THEN AppendEntry(st, i, r.score)
                 ELSE st

RECURSIVE Loop(_, _, _)
Loop(st, i, profile) ==
    IF i > Len(st.schemes) THEN st
    ELSE Loop(LoopBody(st, i, profile), i + 1, profile)

\* x.get("matchScore", 0)
SortKey(x) == IF "matchScore" \in DOMAIN x THEN x["matchScore"] ELSE 0

\* A variant of InsertDesc that puts e in front of the elements with its key
\* (an ascending sort that is reversed afterwards).
RECURSIVE InsertDescBeforeTies(_, _)
InsertDescBeforeTies(sorted, e) ==
    IF sorted = <<>> THEN <<e>>
    ELSE IF SortKey(Head(sorted)) > SortKey(e)
         THEN <<Head(sorted)>> \o InsertDescBeforeTies(Tail(sorted), e)
         ELSE <<e>> \o sorted

\* Insertion of e behind every element whose key is at least e's key.
RECURSIVE InsertDesc(_, _)
InsertDesc(sorted, e) ==
    IF sorted = <<>> THEN <<e>>
    ELSE IF SortKey(Head(sorted)) >= SortKey(e)
         THEN <<Head(sorted)>> \o InsertDesc(Tail(sorted), e)
         ELSE <<e>> \o sorted

\* sorted(results, key=..., reverse=True): a stable sort, so elements with
\* equal keys keep their order in results.
RECURSIVE SortedDesc(_)
SortedDesc(results) ==
    IF results = <<>> THEN <<>>
    ELSE InsertDesc(SortedDesc(SubSeq(results, 1, Len(results) - 1)),
                    results[Len(results)])

\* strict_retrieve(profile) run on the catalog `schemes`: the returned list and
\* the catalog as the call leaves it.
SortedResults(st) == [ret |-> SortedDesc(st.results), schemes |-> st.schemes]

strict_retrieve(schemes, profile) ==
    SortedResults(Loop([schemes |-> schemes, results |-> <<>>], 1, profile))

-----------------------------------------------------------------------------
(* POST /retrieve                                                          *)

\* The handler body: strict_retrieve never raises on a ProfileIn, so the
\* except branch (HTTP 500) is not taken.
RetrieveBody(r) ==
    [ response |-> [status |-> 200, schemes |-> r.ret],
      schemes |-> r.schemes ]

retrieve(schemes, profile) == RetrieveBody(strict_retrieve(schemes, profile))

\* The profiles a request may carry: any sample profile on the first request,
\* afterwards a repeat of the first profile or one of the follow-up profiles.
RequestProfiles ==
    IF firstCall = None THEN Profiles
    ELSE {TheValue(firstCall).profile} \cup FollowUpProfiles

\* The state after the handler has answered `profile` with r.
Answered(profile, r) ==
    /\ SCHEMES' = r.schemes
    /\ response' = r.response
    /\ firstCall' = IF firstCall = None
                    THEN Some([profile |-> profile,
                               result |-> r.response.schemes])
                    ELSE firstCall

\* The handler run on one request body.
RetrieveProfile(profile) ==
    /\ Answered(profile, retrieve(SCHEMES, profile))
    /\ request' = [profile |-> profile]
    /\ nCalls' = nCalls + 1
    /\ endpoint' = "retrieve"
    /\ log' = <<"strict_retrieve">>
    /\ UNCHANGED <<GEMINI_API_KEY, gemini>>

Retrieve ==
    /\ nCalls < MaxCalls
    /\ endpoint \in {"none", "retrieve"}
    /\ \E profile \in RequestProfiles : RetrieveProfile(profile)

\* Profiles with every field, name and text included, absent or present.
ProfileFields ==
    {"name", "age", "gender", "state", "income", "occupation", "text"}

PairProfiles ==
    [ name : Optional({"Asha"}),
      age : Optional({10, 17, 21, 41}),
      gender : Optional({<<"F">>, <<"m", "a", "l", "e">>}),
      state : Optional({"Madhya Pradesh", "Telangana", "West Bengal", "Delhi"}),
      income : Optional({249999, 499999, 500000}),
      occupation : Optional({farmer, student, vendor}),
      text : Optional({"I grow rice"}) ]

\* A first request with any of these profiles.
RetrieveFirstOfPair ==
    /\ nCalls = 0
    /\ endpoint = "none"
    /\ \E profile \in PairProfiles : RetrieveProfile(profile)

\* A later request with the first profile less one of its fields.
RetrieveWithoutField ==
    /\ 0 < nCalls
    /\ nCalls < MaxCalls
    /\ endpoint = "retrieve"
    /\ \E field \in ProfileFields :
         /\ TheValue(firstCall).profile[field] /= None
         /\ RetrieveProfile([TheValue(firstCall).profile EXCEPT ![field] = None])

-----------------------------------------------------------------------------
(* Inputs of POST /synthesize.                                             *)
(* A text the handler returns is a sequence of pieces (atomic strings);    *)
(* the Hindi sentences of the source are written "[hi] ..." in ASCII.      *)

MaxSchemes == 2

en == <<"e", "n">>
LanguageSamples == { <<>>, en, <<"h", "i">>, <<"H", "i">> }

\* The values pydantic builds for SynthesizeIn.schemes: SchemeOut objects.
\* A SchemeOut has the declared fields as attributes and no method `get`.
SchemeOutSamples ==
    { [ pytype |-> "SchemeOut", id |-> "pm-kisan",
        name |-> <<"PM Kisan Samman Nidhi">>,
        eligibilityCriteria |-> Some(<<"Landholding farmer families">>) ],
      [ pytype |-> "SchemeOut", id |-> "state-scholarship",
        name |-> <<"Your", " State Scholarship">>,
        eligibilityCriteria |-> Some(<<"Resident", "Enrolled student">>) ] }

RECURSIVE SeqsUpTo(_, _)
SeqsUpTo(S, n) ==
    IF n = 0 THEN {<<>>}
    ELSE LET shorter == SeqsUpTo(S, n - 1)
         IN  shorter \cup {Append(q, x) : q \in {r \in shorter : Len(r) = n - 1},
                                          x \in S}

SynthProfiles ==
    { [ name |-> None, age |-> Some(40), gender |-> None, state |-> None,
        income |-> None, occupation |-> Some(farmer), text |-> None ] }

SynthesizeBodies ==
    [ profile : SynthProfiles,
      schemes : SeqsUpTo(SchemeOutSamples, MaxSchemes),
      language : Optional(LanguageSamples) ]

\* What one POST to a Gemini endpoint does:
\*   "timeout"     requests.post raises (timeout=25, or a connection error)
\*   "http_error"  resp.raise_for_status() raises
\*   "empty_text"  the JSON is {"text": ""}
\*   "null_text"   the JSON is {"output": {"text": null}}
\*   "text"        the JSON carries a non-empty text in a known shape
\*   "unparsed"    the JSON has no known shape
Outcomes ==
    {"timeout", "http_error", "empty_text", "null_text", "text", "unparsed"}

Endpoints ==
    << "v1beta/models:generateContent", "v1/models:generateContent",
       "v1beta/models:generateText", "v1/models:generateText" >>

GeminiBehaviours == [1..Len(Endpoints) -> Outcomes]

KeyUnset == ""
Keys == {KeyUnset, "secret-key"}

-----------------------------------------------------------------------------
(* call_gemini                                                             *)

GeminiText == <<"<text generated by Gemini>">>
GeminiJsonDump == <<"<json.dumps(data)>">>

\* The try block of the endpoint loop on one endpoint: either a return value
\* (an Optional text, returned by call_gemini) or an exception, after which
\* the loop goes on.  Line 438 returns out["text"] as it is, so a JSON null
\* there makes call_gemini return None.
TryEndpoint(outcome) ==
    CASE outcome = "text"       -> [raised |-> FALSE, ret |-> Some(GeminiText)]
      [] outcome = "empty_text" -> [raised |-> FALSE, ret |-> Some(<<>>)]
      [] outcome = "null_text"  -> [raised |-> FALSE, ret |-> None]
      [] outcome = "unparsed"   -> [raised |-> FALSE, ret |-> Some(GeminiJsonDump)]
      [] OTHER                  -> [raised |-> TRUE, ret |-> None]

\* A variant of EndpointLoop that does not stop at the endpoint that answers:
\* it posts to the remaining endpoints too and returns the first answer.
RECURSIVE EndpointLoopKeepsGoing(_, _, _)
EndpointLoopKeepsGoing(behaviour, i, posts) ==
    IF i > Len(Endpoints) THEN [ret |-> None, posts |-> posts]
    ELSE LET t == TryEndpoint(behaviour[i])
             rest == EndpointLoopKeepsGoing(behaviour, i + 1,
                                            Append(posts, Endpoints[i]))
         IN  IF t.raised THEN rest
             ELSE [ret |-> t.ret, posts |-> rest.posts]

RECURSIVE EndpointLoop(_, _, _)
EndpointLoop(behaviour, i, posts) ==
    IF i > Len(Endpoints) THEN [ret |-> None, posts |-> posts]
    ELSE LET t == TryEndpoint(behaviour[i])
             sent == Append(posts, Endpoints[i])
         IN  IF t.raised THEN EndpointLoop(behaviour, i + 1, sent)
             ELSE [ret |-> t.ret, posts |-> sent]

\* call_gemini(prompt) with the module's key: the returned Optional text and
\* the endpoints posted to, in order.
call_gemini(key, prompt, behaviour) ==
    IF key = "" THEN [ret |-> None, posts |-> <<>>]
    ELSE EndpointLoop(behaviour, 1, <<>>)

-----------------------------------------------------------------------------
(* build_synthesis_prompt and the local text.                              *)

\* s.get(...): a dict has the method, a pydantic model object has not
\* (AttributeError).
HasGet(s) == s.pytype = "dict"

\* language and language.lower().startswith("h")
IsHindiAnyCase(language) ==
    /\ language /= <<>>
    /\ StartsWith(Lower(language), <<"h">>)

\* language.startswith("h")
IsHindiLowerOnly(language) == StartsWith(language, <<"h">>)

\* The prompt is kept as its variable parts: the language name, the profile
\* and, per scheme, the name and the criteria.  The loop over the schemes
\* calls s.get on each element.
build_synthesis_prompt(profile, schemes, language) ==
    IF \E i \in 1..Len(schemes) : ~HasGet(schemes[i])
    THEN [raised |-> TRUE, prompt |-> <<>>]
    ELSE [ raised |-> FALSE,
           prompt |-> << IF IsHindiAnyCase(language) THEN "Hindi" ELSE "English",
                         profile,
                         [i \in 1..Len(schemes) |-> schemes[i].name] >> ]

\* The if/elif table of canned reasons; the pieces "You are" and "Your" are
\* the ones the Hindi pass replaces.
Reason(s) ==
    CASE s.id = "pm-kisan" ->
            <<"You are", " a farmer, and PM-Kisan supports landholding farmers.">>
      [] s.id = "pm-svanidhi" ->
            <<"You are", " a street vendor; PM SVANidhi offers micro-credit to vendors.">>
      [] s.id = "ayushman-bharat" ->
            <<"Your", " income is below the simulated threshold for Ayushman Bharat.">>
      [] s.id = "atal-pension" ->
            <<"Your", " age falls in the Atal Pension eligible range.">>
      [] s.id = "sukanya-samriddhi" ->
            <<"Your", " profile matches the Sukanya Samriddhi criteria for a girl child.">>
      [] s.id = "ladli-behna" ->
            <<"You are", " a woman resident of MP within the eligible age and income range.">>
      [] s.id = "rythu-bandhu" ->
            <<"You are", " a farmer in Telangana, matching Rythu Bandhu.">>
      [] s.id = "kanyashree" ->
            <<"You are", " a girl student in the eligible age range for Kanyashree.">>
      [] s.id = "delhi-electricity" ->
            <<"You are", " a Delhi resident eligible for basic electricity subsidy.">>
      [] OTHER ->
            <<"Matches some published eligibility criteria: ">>
            \o (IF Truthy(s.eligibilityCriteria)
                THEN LET c == TheValue(s.eligibilityCriteria)
                     IN  [i \in 1..(2 * Len(c) - 1) |->
                            IF i % 2 = 1 THEN c[(i + 1) \div 2] ELSE ", "]
                ELSE <<>>)

\* f"- {s.get('name')}: {reason}"
Line(s) == <<"- ">> \o s.name \o <<": ">> \o Reason(s)

RECURSIVE JoinLines(_)
JoinLines(lines) ==
    IF lines = <<>> THEN <<>>
    ELSE IF Len(lines) = 1 THEN lines[1]
    ELSE lines[1] \o <<"\n">> \o JoinLines(Tail(lines))

\* l.replace("You are", ...).replace("Your", ...).replace("Verify documents", ...)
\* on the pieces of a line.
HindiReplace(line) ==
    [i \in 1..Len(line) |->
        CASE line[i] = "You are" -> "[hi] aap"
          [] line[i] = "Your" -> "[hi] aapki"
          [] line[i] = "Verify documents" -> "[hi] pramanpatra satyapit karen"
          [] OTHER -> line[i]]

NextSteps ==
    << "- ", "Verify documents", " (Aadhaar, Income certificate, Residence proof)",
       "\n", "- Visit the official scheme page or your local helpdesk to apply." >>
NextStepsHi ==
    << "[hi] - dastavez satyapit karen (Aadhaar, aay praman, nivas praman)",
       "\n", "[hi] - aavedan hetu aadhikarik portal ya najdiki sahayata kendra par jaen." >>

\* The else branch of `if GEMINI_API_KEY` (lines 522-562).
LocalFallback(schemes, language) ==
    IF \E i \in 1..Len(schemes) : ~HasGet(schemes[i])
    THEN [raised |-> TRUE, text |-> <<>>]
    ELSE LET lines == [i \in 1..Len(schemes) |-> Line(schemes[i])]
         IN  IF StartsWith(Lower(language), <<"h">>)
             THEN [ raised |-> FALSE,
                    text |-> JoinLines([i \in 1..Len(lines) |-> HindiReplace(lines[i])])
                             \o <<"\n", "\n">> \o NextStepsHi ]
             ELSE [ raised |-> FALSE,
                    text |-> JoinLines(lines) \o <<"\n", "\n">> \o NextSteps ]

-----------------------------------------------------------------------------
(* POST /synthesize                                                        *)

MsgNoSchemesEn == <<"No schemes provided for synthesis.">>
MsgNoSchemesHi == <<"[hi] synthesis ke liye koi yojana pradan nahin ki gai.">>
MsgNoAnalysisEn ==
    <<"Could not generate analysis from Gemini. Please try again later.">>
MsgNoAnalysisHi ==
    <<"[hi] Gemini se vishleshan prapt nahin kar sake. kripya baad men punah prayas karen.">>
InternalServerError == <<"Internal Server Error">>

\* A returned {"text": ...} body, and an exception that leaves the handler
\* (FastAPI answers it with status 500).
Returned(text, ran) == [status |-> 200, text |-> text, log |-> ran]
Raised(ran) == [status |-> 500, text |-> InternalServerError, log |-> ran]

\* language = body.language or "en"
RequestLanguage(body) ==
    IF Truthy(body.language) THEN TheValue(body.language) ELSE en

\* if not schemes: the immediate message (lines 501-503)
NoSchemesMessage(language) ==
    IF ~IsHindiLowerOnly(language) THEN MsgNoSchemesEn ELSE MsgNoSchemesHi

\* The branch `if GEMINI_API_KEY` (lines 508-516).  call_gemini catches
\* every exception of an endpoint attempt itself, so the except branch of
\* lines 517-520 is never entered.
GeminiBranch(key, prompt, language, behaviour) ==
    LET g == call_gemini(key, prompt, behaviour)
        ran == <<"build_synthesis_prompt", "call_gemini">> \o g.posts
    IN  IF Truthy(g.ret) THEN Returned(TheValue(g.ret), ran)
        ELSE Returned(IF ~IsHindiLowerOnly(language) THEN MsgNoAnalysisEn
                      ELSE MsgNoAnalysisHi, ran)

\* The else branch (lines 521-562).
LocalBranch(schemes, language) ==
    LET f == LocalFallback(schemes, language)
    IN  IF f.raised THEN Raised(<<"build_synthesis_prompt">>)
        ELSE Returned(f.text, <<"build_synthesis_prompt">>)

\* The handler body.  `body.schemes or []` keeps a list as it is.
synthesize(body, key, behaviour) ==
    LET schemes == body.schemes
        language == RequestLanguage(body)
    IN  IF schemes = <<>> THEN Returned(NoSchemesMessage(language), <<>>)
        ELSE LET b == build_synthesis_prompt(body.profile, schemes, language)
             IN  IF b.raised THEN Raised(<<"build_synthesis_prompt">>)
                 ELSE IF key /= ""
                      THEN GeminiBranch(key, b.prompt, language, behaviour)
                      ELSE LocalBranch(schemes, language)

\* One request is handled per behaviour: the handler reads GEMINI_API_KEY and
\* writes no state that a later request reads.
Synthesize ==
    /\ nCalls = 0
    /\ endpoint = "none"
    /\ \E body \in SynthesizeBodies, behaviour \in GeminiBehaviours :
         LET r == synthesize(body, GEMINI_API_KEY, behaviour)
         IN  /\ response' = [status |-> r.status, text |-> r.text]
             /\ log' = r.log
             /\ request' = body
             /\ gemini' = behaviour
    /\ nCalls' = nCalls + 1
    /\ endpoint' = "synthesize"
    /\ UNCHANGED <<SCHEMES, GEMINI_API_KEY, firstCall>>

-----------------------------------------------------------------------------
(* The specifications.                                                     *)

NoRequest == [profile |-> None]
NoResponse == [status |-> 0]
NoBehaviour == [i \in 1..Len(Endpoints) |-> "timeout"]

\* The process after import: the catalog as written in the source, no
\* request handled yet.
Started ==
    /\ SCHEMES = Catalog
    /\ nCalls = 0
    /\ endpoint = "none"
    /\ request = NoRequest
    /\ gemini = NoBehaviour
    /\ response = NoResponse
    /\ log = <<>>
    /\ firstCall = None

\* GEMINI_API_KEY is absent from the environment (the default "" of line 25);
\* /retrieve does not read it.
Init ==
    /\ Started
    /\ GEMINI_API_KEY = KeyUnset

\* The server answering /retrieve requests.
Next == Retrieve

Spec == Init /\ [][Next]_vars

\* GEMINI_API_KEY as the environment gives it: absent or set.
InitSynth ==
    /\ Started
    /\ GEMINI_API_KEY \in Keys

\* The server answering a /synthesize request.
NextSynth == Synthesize

SpecSynth == InitSynth /\ [][NextSynth]_vars

\* The prompts handed to call_gemini: build_synthesis_prompt on lists of
\* dicts, as its signature declares.
DictSchemes ==
    { <<>>,
      << [ pytype |-> "dict", id |-> "pm-kisan",
           name |-> <<"PM Kisan Samman Nidhi">>,
           eligibilityCriteria |-> Some(<<"Landholding farmer families">>) ] >> }

PromptSamples ==
    { build_synthesis_prompt(profile, schemes, en).prompt :
        profile \in SynthProfiles, schemes \in DictSchemes }

\* One call of call_gemini(prompt), with the endpoints answering as
\* `behaviour` says.
CallGemini ==
    /\ nCalls = 0
    /\ endpoint = "none"
    /\ \E prompt \in PromptSamples, behaviour \in GeminiBehaviours :
         LET r == call_gemini(GEMINI_API_KEY, prompt, behaviour)
         IN  /\ response' = [ret |-> r.ret]
             /\ log' = r.posts
             /\ request' = [prompt |-> prompt]
             /\ gemini' = behaviour
    /\ nCalls' = nCalls + 1
    /\ endpoint' = "call_gemini"
    /\ UNCHANGED <<SCHEMES, GEMINI_API_KEY, firstCall>>

\* The server answering a /retrieve request and then the same request with
\* one field left out.
NextAbsent == RetrieveFirstOfPair \/ RetrieveWithoutField

SpecAbsent == Init /\ [][NextAbsent]_vars

\* call_gemini called on its own.
NextGemini == CallGemini

SpecGemini == InitSynth /\ [][NextGemini]_vars

-----------------------------------------------------------------------------
(* Properties of POST /retrieve, checked under Spec.                       *)

Served == endpoint = "retrieve"
Matched == response.schemes
Profile == request.profile

InResult(id) == \E i \in 1..Len(Matched) : Matched[i].id = id
PositionOf(id) == CHOOSE i \in 1..Len(Matched) : Matched[i].id = id
ScoreOf(id) == Matched[PositionOf(id)].matchScore
CatalogPosition(id) == CHOOSE i \in 1..Len(Catalog) : Catalog[i].id = id

\* The first character is "f" or "F".
StartsWithF(gender) ==
    \E g \in gender : g /= <<>> /\ g[1] \in {"f", "F"}

\* The occupations of the samples that contain "farmer" in some letter case.
FarmerOccupations ==
    { farmer, <<"D", "a", "i", "r", "y", " ", "F", "A", "R", "M", "E", "R">> }

\* C1: the list returned by strict_retrieve is ordered by non-increasing
\* matchScore, and two returned schemes with equal matchScore stand in the
\* order they have in the SCHEMES catalog.
C1_OrderedStable ==
    Served =>
        \A i, j \in 1..Len(Matched) :
            i < j =>
                /\ Matched[i].matchScore >= Matched[j].matchScore
                /\ Matched[i].matchScore = Matched[j].matchScore
                     => CatalogPosition(Matched[i].id) < CatalogPosition(Matched[j].id)

\* A result with a tie between two schemes and a lower score behind them.
C1_Witness ==
    /\ Served
    /\ \E i, j, k \in 1..Len(Matched) :
          /\ i < j /\ j < k
          /\ Matched[i].matchScore = Matched[j].matchScore
          /\ Matched[j].matchScore > Matched[k].matchScore

\* C2: a scheme whose state is not "Central" is never in the result when the
\* profile's state is absent or differs (case-sensitively) from the scheme's
\* state, whatever the other fields of the profile are.
C2_RegionalExcluded ==
    Served =>
        \A n \in 1..Len(Catalog) :
            ( /\ Catalog[n].state /= "Central"
              /\ \A st \in Profile.state : st /= Catalog[n].state )
            => ~InResult(Catalog[n].id)

\* A farmer whose state is written "telangana": the nationwide farmer scheme
\* is returned, the Telangana one is not.
C2_Witness ==
    /\ Served
    /\ Profile.state = Some("telangana")
    /\ Profile.occupation = Some(farmer)
    /\ InResult("pm-kisan")
    /\ ~InResult("rythu-bandhu")

\* C3: a profile whose occupation contains "farmer" in any letter case gets
\* pm-kisan with matchScore 0.90; if its state is exactly "Telangana" it also
\* gets rythu-bandhu with matchScore 0.95, placed before pm-kisan.
C3_FarmerSchemes ==
    (Served /\ \E occ \in Profile.occupation : occ \in FarmerOccupations) =>
        /\ InResult("pm-kisan")
        /\ ScoreOf("pm-kisan") = 90
        /\ Profile.state = Some("Telangana") =>
              /\ InResult("rythu-bandhu")
              /\ ScoreOf("rythu-bandhu") = 95
              /\ PositionOf("rythu-bandhu") < PositionOf("pm-kisan")

\* An upper-case farmer of Telangana with both schemes returned.
C3_Witness ==
    /\ Served
    /\ \E occ \in Profile.occupation : occ \in FarmerOccupations /\ occ /= farmer
    /\ Profile.state = Some("Telangana")
    /\ InResult("rythu-bandhu")
    /\ InResult("pm-kisan")

\* C4: atal-pension is in the result, with matchScore 0.85, exactly when the
\* age is present and 18 <= age <= 40.
C4_AtalPension ==
    Served =>
        /\ InResult("atal-pension") <=> \E a \in Profile.age : 18 <= a /\ a <= 40
        /\ InResult("atal-pension") => ScoreOf("atal-pension") = 85

\* Age 40 with the scheme returned.
C4_Witness ==
    /\ Served
    /\ Profile.age = Some(40)
    /\ InResult("atal-pension")

C6_AsStated ==
    Served =>
        /\ InResult("kanyashree")
             <=> /\ Profile.state = Some("West Bengal")
                 /\ StartsWithF(Profile.gender)
                 /\ Profile.occupation = Some(student)
                 /\ \E a \in Profile.age : 13 <= a /\ a <= 18
        /\ InResult("kanyashree") => ScoreOf("kanyashree") = 95

\* The occupations of the samples that are "student" up to letter case.
StudentOccupations == { student, <<"S", "t", "u", "d", "e", "n", "t">> }

\* C6 (amended): kanyashree is in the result exactly when the state is
\* "West Bengal", the gender starts with "f"/"F", the occupation equals
\* "student" up to letter case and the age is in [13,18]; its matchScore is
\* then 0.95.
C6_Kanyashree ==
    Served =>
        /\ InResult("kanyashree")
             <=> /\ Profile.state = Some("West Bengal")
                 /\ StartsWithF(Profile.gender)
                 /\ \E occ \in Profile.occupation : occ \in StudentOccupations
                 /\ \E a \in Profile.age : 13 <= a /\ a <= 18
        /\ InResult("kanyashree") => ScoreOf("kanyashree") = 95

\* The occupation "Student" with the scheme returned.
C6_Witness ==
    /\ Served
    /\ Profile.occupation = Some(<<"S", "t", "u", "d", "e", "n", "t">>)
    /\ InResult("kanyashree")

\* C7: after any sequence of strict_retrieve calls the SCHEMES catalog is
\* as it was written (no record has a matchScore, the order is the same), and
\* a call with the profile of the first call returns the list the first call
\* returned.
C7_CatalogAndRepeat ==
    /\ SCHEMES = Catalog
    /\ \A n \in 1..Len(SCHEMES) : "matchScore" \notin DOMAIN SCHEMES[n]
    /\ \A first \in firstCall :
          Profile = first.profile => Matched = first.result

\* A later call that repeats the first profile and returns schemes.
C7_Witness ==
    /\ nCalls >= 2
    /\ \E first \in firstCall : Profile = first.profile
    /\ Len(Matched) >= 2

-----------------------------------------------------------------------------
(* Properties of POST /synthesize, checked under SpecSynth.                *)

Synthesized == endpoint = "synthesize"

\* The first character of the requested language is "h" or "H".
StartsWithH(language) == language /= <<>> /\ language[1] \in {"h", "H"}

\* Every endpoint attempt raises, or the first one that answers gives no text.
ExternalCallGivesNoText ==
    \E n \in 1..(Len(Endpoints) + 1) :
        /\ \A i \in 1..(n - 1) : gemini[i] \in {"timeout", "http_error"}
        /\ n <= Len(Endpoints) => gemini[n] \in {"empty_text", "null_text"}

\* The text the claims describe as the local fallback: one line
\* "- <name>: <reason>" per scheme, a blank line, the next-steps block.
LocalText(schemes, language) ==
    LET lines == [i \in 1..Len(schemes) |-> Line(schemes[i])]
    IN  IF StartsWithH(language)
        THEN JoinLines([i \in 1..Len(lines) |-> HindiReplace(lines[i])])
             \o <<"\n", "\n">> \o NextStepsHi
        ELSE JoinLines(lines) \o <<"\n", "\n">> \o NextSteps

\* C8: with an empty schemes list the handler returns the fixed "no schemes
\* provided" sentence in the requested language (Hindi for a language code
\* that starts with "h" in any letter case, English otherwise) and runs
\* neither build_synthesis_prompt nor call_gemini, whatever the key is.
C8_EmptySchemes ==
    (Synthesized /\ request.schemes = <<>>) =>
        /\ response.status = 200
        /\ response.text = IF StartsWithH(RequestLanguage(request))
                           THEN MsgNoSchemesHi ELSE MsgNoSchemesEn
        /\ log = <<>>

\* C9: with a key configured and a non-empty schemes list, when the external
\* call fails or yields no usable text the handler returns the local fallback
\* text: the per-scheme lines and the next-steps block.
C9_FallbackOnFailure ==
    ( /\ Synthesized
      /\ GEMINI_API_KEY /= KeyUnset
      /\ request.schemes /= <<>>
      /\ ExternalCallGivesNoText )
    => /\ response.status = 200
       /\ response.text = LocalText(request.schemes, RequestLanguage(request))

\* C10: every /synthesize request is answered with a {text: <string>} body,
\* never with an exception or an HTTP error status.
C10_NeverAnError ==
    Synthesized => response.status = 200

\* No entry of the log is a post to a Gemini endpoint.
NoOutboundRequest ==
    \A i \in 1..Len(log) : \A n \in 1..Len(Endpoints) : log[i] /= Endpoints[n]

\* C11: with no key configured and a non-empty schemes list the handler
\* makes no outbound HTTP request and returns one line "- <name>: <reason>"
\* per input scheme, in input order, then a blank line and the next-steps
\* block.
C11_LocalTextWithoutKey ==
    ( /\ Synthesized
      /\ GEMINI_API_KEY = KeyUnset
      /\ request.schemes /= <<>> )
    => /\ NoOutboundRequest
       /\ response.status = 200
       /\ response.text = LocalText(request.schemes, RequestLanguage(request))

-----------------------------------------------------------------------------
(* Properties of call_gemini, checked under SpecGemini.                    *)

Called == endpoint = "call_gemini"

\* The attempt on the n-th endpoint fails: the post or the status check
\* raises.
AttemptFails(n) == gemini[n] \in {"timeout", "http_error"}

AllAttemptsFail == \A n \in 1..Len(Endpoints) : AttemptFails(n)

\* The endpoints are tried in list order, each at most once, each only after
\* all earlier ones failed and none after the first that succeeded; without a
\* key none is tried.
AttemptsInOrder ==
    IF GEMINI_API_KEY = KeyUnset THEN log = <<>>
    ELSE /\ Len(log) >= 1
         /\ Len(log) <= Len(Endpoints)
         /\ \A i \in 1..Len(log) :
               /\ log[i] = Endpoints[i]
               /\ \A j \in 1..(i - 1) : AttemptFails(j)
               /\ ~AttemptFails(i) => Len(log) = i

\* C12 as stated: the attempts are made in order, stopping at the first
\* success, and with a key the call returns None exactly when all four
\* attempts failed.
C12_AsStated ==
    Called =>
        /\ AttemptsInOrder
        /\ GEMINI_API_KEY /= KeyUnset =>
              (response.ret = None <=> AllAttemptsFail)

\* C12 (amended): the attempts are made in order, stopping at the first
\* success, and with a key the call returns None exactly when all four
\* attempts failed or the first endpoint that answered sent a null text
\* under "output".
C12_EndpointOrder ==
    Called =>
        /\ AttemptsInOrder
        /\ GEMINI_API_KEY /= KeyUnset =>
              (response.ret = None
                 <=> (AllAttemptsFail \/ gemini[Len(log)] = "null_text"))

\* Two endpoints failed, the third answered with a text, the fourth was left
\* alone.
C12_Witness ==
    /\ Called
    /\ GEMINI_API_KEY /= KeyUnset
    /\ AttemptFails(1) /\ AttemptFails(2)
    /\ gemini[3] = "text"
    /\ Len(log) = 3
    /\ response.ret = Some(GeminiText)

-----------------------------------------------------------------------------
(* Absent profile fields, checked under SpecAbsent.                        *)

\* The profile fields that the state filter and the rule of a scheme read.
FieldsRead(id) ==
    CASE id = "pm-kisan"          -> {"occupation"}
      [] id = "ayushman-bharat"   -> {"income"}
      [] id = "pm-svanidhi"       -> {"occupation"}
      [] id = "sukanya-samriddhi" -> {"gender", "age"}
      [] id = "atal-pension"      -> {"age"}
      [] id = "ladli-behna"       -> {"state", "gender", "age", "income"}
      [] id = "rythu-bandhu"      -> {"state", "occupation"}
      [] id = "kanyashree"        -> {"state", "gender", "occupation", "age"}
      [] id = "delhi-electricity" -> {"state"}

\* The scores with which a result carries the scheme: none, or one.
ScoresIn(result, id) ==
    { result[i].matchScore : i \in {k \in 1..Len(result) : result[k].id = id} }

\* C13: an absent field raises no error, and of two profiles that differ
\* only in one field, present in the first and absent in the second, every
\* scheme whose state filter and rule do not read that field is in both
\* results or in neither, with the same matchScore.
C13_AbsenceIsLocal ==
    Served =>
        /\ response.status = 200
        /\ \A first \in firstCall : \A field \in ProfileFields :
              ( /\ first.profile[field] /= None
                /\ Profile = [first.profile EXCEPT ![field] = None] )
              => \A n \in 1..Len(Catalog) :
                    field \notin FieldsRead(Catalog[n].id)
                    => ScoresIn(Matched, Catalog[n].id)
                         = ScoresIn(first.result, Catalog[n].id)

\* A farmer of Telangana asks again without the state: rythu-bandhu is gone,
\* pm-kisan stays.
C13_Witness ==
    /\ Served
    /\ \E first \in firstCall :
          /\ first.profile.state = Some("Telangana")
          /\ Profile = [first.profile EXCEPT !.state = None]
          /\ ScoresIn(first.result, "rythu-bandhu") /= {}
    /\ ~InResult("rythu-bandhu")
    /\ InResult("pm-kisan")

====
